---- MODULE Spec2Model ----
(***************************************************************************)
(* A model of the FastGPT knowledge-base client (src/fastgpt.py).          *)
(*                                                                         *)
(* The client object holds base_url and headers.  Every JSON operation is  *)
(* one call of _request followed by the operation's own use of the         *)
(* response; create_file_collection is modelled step by step (validate,    *)
(* download, temporary file, write, metadata, open, upload, except,        *)
(* finally) because what the remote side and the filesystem answer at     *)
(* each step decides which step comes next.                                *)
(*                                                                         *)
(* Text is modelled as a sequence of tokens.  A file path or URL is cut    *)
(* at the characters the code looks at ("/", ".", "?", the scheme), so     *)
(* that basename, split('.'), lower(), unquote and urlparse are computed   *)
(* as the code computes them.  A message is the sequence of its parts, so  *)
(* that an f-string is a concatenation and "the message contains m" is a   *)
(* contiguous sub-sequence.  Message literals that are Chinese in the      *)
(* source are written in English here.                                     *)
(*                                                                         *)
(* Optional[bool] arguments are "omitted" (the caller is silent), "None",  *)
(* "True" or "False".                                                      *)
(*                                                                         *)
(* Not modelled: the name override and quote() of the uploaded file name,  *)
(* tags, create_time and the caller's metadata map (the payload carries    *)
(* the value the code puts there when they are left out).                  *)
(***************************************************************************)
EXTENDS Integers, Sequences, FiniteSets, TLC

VARIABLES
    base_url,          \* self.base_url
    headers,           \* self.headers
    uploaded,          \* the client has sent a multipart upload before
    disk,              \* names of the temporary files that exist on disk
    pc,                \* position of the call in progress
    op,                \* the operation called
    file_path,         \* create_file_collection: the file_path argument
    path_exists,       \* what os.path.exists(file_path) answers
    opts,              \* the remaining arguments of the call
    tmp_file,          \* the file NamedTemporaryFile created (0: none)
    temp_file_path,    \* local temp_file_path (0: None)
    actual_file_path,  \* local actual_file_path ("unset", "local", "temp")
    file_ext,          \* local file_ext
    payload,           \* the JSON payload / form_metadata that was built
    exc,               \* the exception in flight inside the try block
    cause,             \* the first exception the call raised
    retval,            \* value of a return statement waiting for finally
    netlog,            \* the network requests the call has issued, in order
    resp,              \* the response the remote service gave
    cleanup,           \* what the finally block did
    outcome            \* what the caller gets

vars == <<base_url, headers, uploaded, disk, pc, op, file_path, path_exists, opts,
          tmp_file, temp_file_path, actual_file_path, file_ext, payload,
          exc, cause, retval, netlog, resp, cleanup, outcome>>

-----------------------------------------------------------------------------
(* Bounds *)

\* The number of temporary files the disk holds before creating one fails.
DiskCapacity == 2

\* Service-level codes -MaxSmallCode..MaxSmallCode are drawn beside the
\* codes around 200 and 500.
MaxSmallCode == 1

-----------------------------------------------------------------------------
(* Text *)

\* s starts with p
StartsWith(s, p) == Len(s) >= Len(p) /\ SubSeq(s, 1, Len(p)) = p

\* sub occurs in s as a contiguous part
Contains(s, sub) ==
    \E i \in 0..(Len(s) - Len(sub)) : SubSeq(s, i + 1, i + Len(sub)) = sub

\* the largest index of token t in s, 0 when there is none
LastIndexOf(s, t) ==
    IF \E i \in 1..Len(s) : s[i] = t
    THEN CHOOSE i \in 1..Len(s) : s[i] = t /\ \A j \in (i + 1)..Len(s) : s[j] # t
    ELSE 0

\* the smallest index of token t in s, Len(s) + 1 when there is none
FirstIndexOf(s, t) ==
    IF \E i \in 1..Len(s) : s[i] = t
    THEN CHOOSE i \in 1..Len(s) : s[i] = t /\ \A j \in 1..(i - 1) : s[j] # t
    ELSE Len(s) + 1

\* str.lower() on the tokens used
Lower(t) ==
    CASE t = "PDF" -> "pdf"
      [] t = "TXT" -> "txt"
      [] t = "Md" -> "md"
      [] t = "JPG" -> "jpg"
      [] OTHER -> t

\* urllib.parse.unquote: percent-decoding (%2E is ".", %2F is "/")
Unquote(s) ==
    [i \in 1..Len(s) |->
        CASE s[i] = "%2E" -> "."
          [] s[i] = "%2F" -> "/"
          [] OTHER -> s[i]]

\* os.path.basename: what follows the last "/"
Basename(s) == SubSeq(s, LastIndexOf(s, "/") + 1, Len(s))

\* urlparse(url).path: after scheme and host, up to the query
UrlPath(u) == SubSeq(u, 3, FirstIndexOf(u, "?") - 1)

\* name.split('.')[-1].lower() if '.' in name else ''
ExtensionOf(name) ==
    IF LastIndexOf(name, ".") = 0 THEN <<>>
    ELSE [i \in 1..(Len(name) - LastIndexOf(name, ".")) |->
             Lower(name[LastIndexOf(name, ".") + i])]

\* str.rstrip('/')
RECURSIVE RstripSlash(_)
RstripSlash(s) ==
    IF Len(s) > 0 /\ s[Len(s)] = "/" THEN RstripSlash(SubSeq(s, 1, Len(s) - 1))
    ELSE s

-----------------------------------------------------------------------------
(* Exceptions and results *)

NoExc == [kind |-> "none", msg |-> <<>>]

Raise(kind, msg) == [kind |-> kind, msg |-> msg]

\* the value of a Python expression that names nothing
Nothing == [k |-> "nothing", id |-> ""]

NoOutcome == [status |-> "none", kind |-> "none", msg |-> <<>>, value |-> Nothing]

Returned(v) == [status |-> "returned", kind |-> "none", msg |-> <<>>, value |-> v]

Raised(e) == [status |-> "raised", kind |-> e.kind, msg |-> e.msg, value |-> Nothing]

-----------------------------------------------------------------------------
(* The client object *)

\* base_url arguments of the constructor
BaseUrlArgs ==
    { <<"http://", "localhost:3000", "/", "api">>,
      <<"http://", "localhost:3000", "/", "api", "/">>,
      <<"http://", "localhost:3000", "/", "api", "/", "/">> }

\* api_key arguments of the constructor
ApiKeys == {"key-1"}

\* self.headers as the constructor builds it
InitHeaders(api_key) ==
    ("Authorization" :> <<"Bearer ", api_key>>) @@
    ("Content-Type" :> <<"application/json">>)

\* a bug: headers_copy = self.headers, so the pop reaches the client's map
HeadersAliased(h) == [n \in (DOMAIN h) \ {"Content-Type"} |-> h[n]]

\* self.headers after headers_copy = self.headers.copy() and the pop on
\* headers_copy: the copy is a map of its own, self.headers keeps every entry
HeadersAfterUpload(h) == h

\* headers_copy = self.headers.copy(); headers_copy.pop("Content-Type", None)
HeadersCopy(h) == [n \in (DOMAIN h) \ {"Content-Type"} |-> h[n]]

-----------------------------------------------------------------------------
(* Responses of the remote service *)

\* the shapes of the data field of a response body
Absent == [k |-> "absent", id |-> ""]

DataShapes ==
    { Absent,                              \* no data key
      [k |-> "null", id |-> ""],           \* "data": null
      [k |-> "str", id |-> "c1"],          \* "data": "c1"
      [k |-> "map", id |-> ""],            \* "data": {}
      [k |-> "mapId", id |-> "c2"],        \* "data": {"collectionId": "c2"}
      [k |-> "detail", id |-> "d1"],       \* a dataset detail record
      [k |-> "push", id |-> "1"],          \* {"insertLen": 1, ...}
      [k |-> "search", id |-> "s1"] }      \* {"list": [...]}

Codes == ((0 - MaxSmallCode)..MaxSmallCode) \cup {199, 200, 201, 202, 500}

Messages == {"boom"}

\* a response whose body parsed as JSON
Body(has_code, code, has_message, message, data) ==
    [stage |-> "body", has_code |-> has_code, code |-> code,
     has_message |-> has_message, message |-> message, data |-> data]

\* a request that got no usable body
Failure(stage) ==
    [stage |-> stage, has_code |-> FALSE, code |-> 0,
     has_message |-> FALSE, message |-> "", data |-> Absent]

NoResponse == Failure("none")

Bodies ==
    { Body(TRUE, c, TRUE, m, d) : c \in Codes, m \in Messages, d \in DataShapes }
    \cup { Body(TRUE, c, FALSE, "", d) : c \in Codes, d \in DataShapes }
    \cup { Body(FALSE, 0, FALSE, "", d) : d \in DataShapes }

\* what requests.request / requests.post can come back with: the call raises
\* (net_error), raise_for_status raises (http_error), response.json() raises
\* (bad_json), or a body
Responses == { Failure("net_error"), Failure("http_error"), Failure("bad_json") } \cup Bodies

\* str(e) of what the transport raises
TransportError(r) ==
    CASE r.stage = "net_error" -> Raise("ConnectionError", <<"connection failed">>)
      [] r.stage = "http_error" -> Raise("HTTPError", <<"500 Server Error">>)
      [] r.stage = "bad_json" -> Raise("JSONDecodeError", <<"Expecting value">>)
      [] OTHER -> NoExc

\* f"{res_json.get('message')}"
MessageText(r) == IF r.has_message THEN r.message ELSE "None"

\* res_json.get('code') and res_json['code'] not in [200, 201]
CodeRejected(r) == r.has_code /\ r.code # 0 /\ r.code \notin {200, 201}

\* raise Exception(f"Request Failed: {str(e)}")
RequestFailed(e) == Raise("Exception", <<"Request Failed: ">> \o e.msg)

\* _request: the exception it raises, NoExc when it returns res_json
RequestError(r) ==
    IF r.stage # "body" THEN RequestFailed(TransportError(r))
    ELSE IF CodeRejected(r)
         THEN RequestFailed(Raise("Exception", <<"FastGPT API Error: ", MessageText(r)>>))
         ELSE NoExc

-----------------------------------------------------------------------------
(* Arguments *)

\* the flags a caller may pass or leave out
FlagArgs == {"omitted", "None", "True", "False"}

\* the arguments of the text, link and file collection operations
Options(tt, qp, mode, split, size, index, splitter, ipt, ai, ii) ==
    [training_type |-> tt, qa_prompt |-> qp, chunk_setting_mode |-> mode,
     chunk_split_mode |-> split, chunk_size |-> size, index_size |-> index,
     chunk_splitter |-> splitter, index_prefix_title |-> ipt,
     auto_indexes |-> ai, image_index |-> ii]

\* a call that names none of them: the defaults of the signature, the flags
\* left out
DefaultOptions ==
    Options("chunk", "", "auto", "size", 1500, 512, "", "omitted", "omitted", "omitted")

\* every combination
AllOptions ==
    { Options(tt, qp, mode, split, size, index, splitter, ipt, ai, ii) :
        tt \in {"chunk", "qa"}, qp \in {"", "ask"}, mode \in {"auto", "custom"},
        split \in {"size", "char"}, size \in {1500, 1000}, index \in {512, 256},
        splitter \in {"", "sep"}, ipt \in FlagArgs, ai \in FlagArgs, ii \in FlagArgs }

\* a few calls: the defaults, the example's custom chunking, a qa call
SomeOptions ==
    { DefaultOptions,
      Options("chunk", "", "custom", "size", 1000, 512, "", "omitted", "omitted", "omitted"),
      Options("qa", "ask", "custom", "char", 1500, 256, "sep", "False", "None", "True") }

\* the value a parameter has inside the function: the default of the
\* signature when the caller left it out
Effective(passed, default) == IF passed = "omitted" THEN default ELSE passed

\* one payload entry, present when cond holds
Field(cond, name, value) == IF cond THEN name :> value ELSE <<>>

-----------------------------------------------------------------------------
(* create_text_collection: the payload *)

TextBase(o) ==
    ("text" :> "text") @@ ("datasetId" :> "ds") @@ ("name" :> "name") @@
    ("parentId" :> "None") @@ ("trainingType" :> o.training_type) @@
    ("customPdfParse" :> "False") @@
    ("chunkSettingMode" :> o.chunk_setting_mode) @@ ("metadata" :> "{}")

TextChunkFields(o) ==
    Field(o.chunk_setting_mode = "custom", "chunkSplitMode", o.chunk_split_mode) @@
    Field(o.chunk_setting_mode = "custom", "chunkSize", o.chunk_size) @@
    Field(o.chunk_setting_mode = "custom", "indexSize", o.index_size) @@
    Field(o.chunk_setting_mode = "custom" /\ o.chunk_splitter # "",
          "chunkSplitter", o.chunk_splitter)

\* a bug: the prompt is added whatever the training type
TextQaFieldAnyType(o) == Field(o.qa_prompt # "", "qaPrompt", o.qa_prompt)

TextQaField(o) ==
    Field(o.training_type = "qa" /\ o.qa_prompt # "", "qaPrompt", o.qa_prompt)

TextFlagFields(o) ==
    Field(Effective(o.index_prefix_title, "None") # "None",
          "indexPrefixTitle", Effective(o.index_prefix_title, "None")) @@
    Field(Effective(o.auto_indexes, "None") # "None",
          "autoIndexes", Effective(o.auto_indexes, "None")) @@
    Field(Effective(o.image_index, "None") # "None",
          "imageIndex", Effective(o.image_index, "None"))

TextPayload(o) == TextBase(o) @@ TextChunkFields(o) @@ TextQaField(o) @@ TextFlagFields(o)

-----------------------------------------------------------------------------
(* create_link_collection: the payload *)

LinkBase(o) ==
    ("datasetId" :> "ds") @@ ("link" :> "link") @@
    ("parentId" :> "None") @@ ("trainingType" :> o.training_type) @@
    ("customPdfParse" :> "True") @@
    ("chunkSettingMode" :> o.chunk_setting_mode) @@
    ("metadata" :> "{webPageSelector: .body}")

LinkChunkFields(o) ==
    Field(o.chunk_setting_mode = "custom", "chunkSplitMode", o.chunk_split_mode) @@
    Field(o.chunk_setting_mode = "custom", "chunkSize", o.chunk_size) @@
    Field(o.chunk_setting_mode = "custom", "indexSize", o.index_size) @@
    Field(o.chunk_setting_mode = "custom" /\ o.chunk_splitter # "",
          "chunkSplitter", o.chunk_splitter)

LinkQaField(o) ==
    Field(o.training_type = "qa" /\ o.qa_prompt # "", "qaPrompt", o.qa_prompt)

\* a bug: the flags are added without the "is not None" test
LinkFlagFieldsUnchecked(o) ==
    ("indexPrefixTitle" :> Effective(o.index_prefix_title, "True")) @@
    ("autoIndexes" :> Effective(o.auto_indexes, "True")) @@
    ("imageIndex" :> Effective(o.image_index, "True"))

LinkFlagFields(o) ==
    Field(Effective(o.index_prefix_title, "True") # "None",
          "indexPrefixTitle", Effective(o.index_prefix_title, "True")) @@
    Field(Effective(o.auto_indexes, "True") # "None",
          "autoIndexes", Effective(o.auto_indexes, "True")) @@
    Field(Effective(o.image_index, "True") # "None",
          "imageIndex", Effective(o.image_index, "True"))

LinkPayload(o) == LinkBase(o) @@ LinkChunkFields(o) @@ LinkQaField(o) @@ LinkFlagFields(o)

-----------------------------------------------------------------------------
(* create_file_collection: form_metadata *)

FileBase(o) ==
    ("datasetId" :> "ds") @@
    ("parentId" :> "None") @@ ("trainingType" :> o.training_type) @@
    ("customPdfParse" :> "True") @@
    ("chunkSettingMode" :> o.chunk_setting_mode) @@ ("metadata" :> "{}")

\* a bug: the splitter is added without looking at it
FileChunkFieldsAnySplitter(o) ==
    Field(o.chunk_setting_mode = "custom", "chunkSplitMode", o.chunk_split_mode) @@
    Field(o.chunk_setting_mode = "custom", "chunkSize", o.chunk_size) @@
    Field(o.chunk_setting_mode = "custom", "indexSize", o.index_size) @@
    Field(o.chunk_setting_mode = "custom", "chunkSplitter", o.chunk_splitter)

FileChunkFields(o) ==
    Field(o.chunk_setting_mode = "custom", "chunkSplitMode", o.chunk_split_mode) @@
    Field(o.chunk_setting_mode = "custom", "chunkSize", o.chunk_size) @@
    Field(o.chunk_setting_mode = "custom", "indexSize", o.index_size) @@
    Field(o.chunk_setting_mode = "custom" /\ o.chunk_splitter # "",
          "chunkSplitter", o.chunk_splitter)

FileQaField(o) ==
    Field(o.training_type = "qa" /\ o.qa_prompt # "", "qaPrompt", o.qa_prompt)

FileFlagFields(o) ==
    Field(Effective(o.index_prefix_title, "True") # "None",
          "indexPrefixTitle", Effective(o.index_prefix_title, "True")) @@
    Field(Effective(o.auto_indexes, "None") # "None",
          "autoIndexes", Effective(o.auto_indexes, "None")) @@
    Field(Effective(o.image_index, "True") # "None",
          "imageIndex", Effective(o.image_index, "True"))

FileMetadata(o) == FileBase(o) @@ FileChunkFields(o) @@ FileQaField(o) @@ FileFlagFields(o)

-----------------------------------------------------------------------------
(* The other payloads *)

NoPayload == <<>>

DatasetPayload ==
    ("parentId" :> "None") @@ ("type" :> "dataset") @@ ("name" :> "name") @@
    ("intro" :> "") @@ ("avatar" :> "/icon/logo.svg") @@
    ("vectorModel" :> "qwen3-embedding-8b") @@
    ("agentModel" :> "qwen3-next-80b-a3b-instruct") @@
    ("vlmModel" :> "qwen3-vl-30b-a3b-instruct")

DatasetIdParams == ("id" :> "ds")

EmptyCollectionPayload ==
    ("datasetId" :> "ds") @@ ("name" :> "name") @@ ("parentId" :> "None") @@
    ("type" :> "folder") @@ ("metadata" :> "{}")

PushPayload ==
    ("collectionId" :> "c1") @@ ("trainingType" :> "chunk") @@ ("data" :> "[{q, a}]")

SearchPayload ==
    ("datasetId" :> "ds") @@ ("text" :> "text") @@ ("limit" :> 10) @@
    ("similarity" :> 0) @@ ("usingReRank" :> "False") @@ ("searchMode" :> "embedding")

-----------------------------------------------------------------------------
(* What each operation makes of the response _request returned *)

KeyErrorData == Raise("KeyError", <<"'data'">>)

\* return res['data']
DataResult(r) == IF r.data = Absent THEN Raised(KeyErrorData) ELSE Returned(r.data)

\* return DatasetDetail.from_dict(res['data'])
DetailResult(r) ==
    CASE r.data = Absent -> Raised(KeyErrorData)
      [] r.data.k \in {"null", "str"} ->
           Raised(Raise("AttributeError", <<"object has no attribute 'get'">>))
      [] r.data.k = "detail" -> Returned(r.data)
      [] OTHER ->
           Raised(Raise("TypeError", <<"ModelConfig missing required arguments">>))

\* self._delete(...); return True
DeleteResult(r) == Returned([k |-> "bool", id |-> "True"])

\* return PushResults(**res['data'])
PushResult(r) ==
    CASE r.data = Absent -> Raised(KeyErrorData)
      [] r.data.k = "push" -> Returned(r.data)
      [] OTHER -> Raised(Raise("TypeError", <<"PushResults arguments">>))

\* return SearchTestResult.from_list(res['data']['list']).list
SearchResult(r) ==
    CASE r.data = Absent -> Raised(KeyErrorData)
      [] r.data.k = "search" -> Returned(r.data)
      [] r.data.k \in {"null", "str"} ->
           Raised(Raise("TypeError", <<"not subscriptable by 'list'">>))
      [] OTHER -> Raised(Raise("KeyError", <<"'list'">>))

-----------------------------------------------------------------------------
(* create_file_collection: resource acquisition *)

ALLOWED_EXTENSIONS ==
    { <<"pdf">>, <<"xlsx">>, <<"pptx">>, <<"docx">>, <<"md">>, <<"txt">> }

\* ', '.join(S): the elements in the order the set yields them
RECURSIVE Join(_)
Join(S) ==
    IF S = {} THEN <<>>
    ELSE LET x == CHOOSE y \in S : TRUE
         IN IF S = {x} THEN x ELSE x \o <<", ">> \o Join(S \ {x})

\* the file_path arguments drawn: local paths and URLs
LocalPaths ==
    { <<".", "/", "example", ".", "pdf">>,
      <<"notes", ".", "TXT">>,
      <<"image", ".", "jpg">>,
      <<"README">>,
      <<"v1", ".", "2", "/", "report">>,
      <<"archive", ".", "md", ".", "exe">> }

UrlPaths ==
    { <<"https://", "example.com", "/", "document", ".", "pdf">>,
      <<"https://", "example.com", "/", "image", ".", "jpg">>,
      <<"http://", "host", "/", "doc", "%2E", "Md">>,
      <<"https://", "host", "/", "a", ".", "docx", "?", "v", "=", "1", ".", "exe">>,
      <<"https://", "host", "/", "download">> }

FilePaths == LocalPaths \cup UrlPaths

\* file_path.startswith('http://') or file_path.startswith('https://')
IsUrl(path) == StartsWith(path, <<"http://">>) \/ StartsWith(path, <<"https://">>)

\* url_filename / filename
FilenameOf(path) ==
    IF IsUrl(path) THEN Basename(Unquote(UrlPath(path))) ELSE Basename(path)

UnsupportedFormat(ext) ==
    Raise("ValueError",
          <<"unsupported file format: ">> \o ext \o
          <<". ", "only these formats are allowed: ">> \o Join(ALLOWED_EXTENSIONS))

FileNotFound(path) == Raise("FileNotFoundError", <<"file does not exist: ">> \o path)

\* a bug: the URL branch downloads without checking the extension
ValidationErrorUrlUnchecked(path, exists) ==
    IF IsUrl(path) THEN NoExc
    ELSE IF ~exists
         THEN FileNotFound(path)
         ELSE IF ExtensionOf(FilenameOf(path)) \notin ALLOWED_EXTENSIONS
              THEN UnsupportedFormat(ExtensionOf(FilenameOf(path)))
              ELSE NoExc

\* a bug: the local branch checks the extension before the existence
ValidationErrorExtensionFirst(path, exists) ==
    IF ExtensionOf(FilenameOf(path)) \notin ALLOWED_EXTENSIONS
    THEN UnsupportedFormat(ExtensionOf(FilenameOf(path)))
    ELSE IF ~IsUrl(path) /\ ~exists THEN FileNotFound(path) ELSE NoExc

\* the exception the checks at the head of the try block raise, NoExc when
\* they pass
ValidationError(path, exists) ==
    IF IsUrl(path)
    THEN IF ExtensionOf(FilenameOf(path)) \notin ALLOWED_EXTENSIONS
         THEN UnsupportedFormat(ExtensionOf(FilenameOf(path)))
         ELSE NoExc
    ELSE IF ~exists
         THEN FileNotFound(path)
         ELSE IF ExtensionOf(FilenameOf(path)) \notin ALLOWED_EXTENSIONS
              THEN UnsupportedFormat(ExtensionOf(FilenameOf(path)))
              ELSE NoExc

\* the name NamedTemporaryFile picks: one no existing file has
FreshName(d) == CHOOSE n \in 1..(Cardinality(d) + 1) : n \notin d

\* a bug: the nested collectionId is never looked for
UploadResultDataOnly(r) ==
    CASE r.stage # "body" -> Raised(TransportError(r))
      [] r.data = Absent -> Raised(KeyErrorData)
      [] OTHER -> Returned(r.data)

\* the upload's response handling: raise_for_status, json(), then
\* res_json['data']['collectionId'], falling back to res_json['data']
UploadResult(r) ==
    CASE r.stage # "body" -> Raised(TransportError(r))
      [] r.data = Absent -> Raised(KeyErrorData)
      [] r.data.k = "mapId" -> Returned([k |-> "str", id |-> r.data.id])
      [] OTHER -> Returned(r.data)

\* a bug: the handler lets the exception through as it is
UploadFailedReraise(e) == e

\* raise Exception(f"File Upload Failed: {str(e)}")
UploadFailed(e) == Raise("Exception", <<"File Upload Failed: ">> \o e.msg)

-----------------------------------------------------------------------------
(* The state after construction *)

Init ==
    /\ \E u \in BaseUrlArgs : base_url = RstripSlash(u)
    /\ \E key \in ApiKeys : headers = InitHeaders(key)
    /\ uploaded = FALSE
    /\ disk = {}
    /\ pc = "idle"
    /\ op = "none"
    /\ file_path = <<>>
    /\ path_exists = FALSE
    /\ opts = DefaultOptions
    /\ tmp_file = 0
    /\ temp_file_path = 0
    /\ actual_file_path = "unset"
    /\ file_ext = <<>>
    /\ payload = NoPayload
    /\ exc = NoExc
    /\ cause = NoExc
    /\ retval = Nothing
    /\ netlog = <<>>
    /\ resp = NoResponse
    /\ cleanup = "none"
    /\ outcome = NoOutcome

\* the variables only create_file_collection uses
fileLocals == <<file_path, path_exists, tmp_file, temp_file_path,
                actual_file_path, file_ext, exc, retval, cleanup>>

\* one request as requests sees it
Request(kind, method, url, hdrs) ==
    [kind |-> kind, method |-> method, url |-> url, headers |-> hdrs]

-----------------------------------------------------------------------------
(* The operations that go through _request *)

\* a whole call: the payload is built, _request sends it with self.headers
\* and raises or returns res_json, and the operation returns what it makes
\* of res_json
JsonCall(name, method, endpoint, body, o, r, result) ==
    /\ pc' = "done"
    /\ op' = name
    /\ opts' = o
    /\ payload' = body
    /\ netlog' = <<Request("json", method, base_url \o endpoint, headers)>>
    /\ resp' = r
    /\ cause' = IF RequestError(r) # NoExc THEN RequestError(r)
                ELSE IF result.status = "raised" THEN Raise(result.kind, result.msg)
                ELSE NoExc
    /\ outcome' = IF RequestError(r) # NoExc THEN Raised(RequestError(r)) ELSE result
    /\ UNCHANGED <<base_url, headers, uploaded, disk, fileLocals>>

create_dataset(R) ==
    /\ pc = "idle"
    /\ \E r \in R :
        JsonCall("create_dataset", "POST", <<"/core/dataset/create">>,
                 DatasetPayload, DefaultOptions, r, DataResult(r))

get_dataset_detail(R) ==
    /\ pc = "idle"
    /\ \E r \in R :
        JsonCall("get_dataset_detail", "GET", <<"/core/dataset/detail">>,
                 DatasetIdParams, DefaultOptions, r, DetailResult(r))

delete_dataset(R) ==
    /\ pc = "idle"
    /\ \E r \in R :
        JsonCall("delete_dataset", "DELETE", <<"/core/dataset/delete">>,
                 DatasetIdParams, DefaultOptions, r, DeleteResult(r))

create_empty_collection(R) ==
    /\ pc = "idle"
    /\ \E r \in R :
        JsonCall("create_empty_collection", "POST", <<"/core/dataset/collection/create">>,
                 EmptyCollectionPayload, DefaultOptions, r, DataResult(r))

create_text_collection(O, R) ==
    /\ pc = "idle"
    /\ \E o \in O, r \in R :
        JsonCall("create_text_collection", "POST",
                 <<"/core/dataset/collection/create/text">>,
                 TextPayload(o), o, r, DataResult(r))

create_link_collection(O, R) ==
    /\ pc = "idle"
    /\ \E o \in O, r \in R :
        JsonCall("create_link_collection", "POST",
                 <<"/core/dataset/collection/create/link">>,
                 LinkPayload(o), o, r, DataResult(r))

push_data(R) ==
    /\ pc = "idle"
    /\ \E r \in R :
        JsonCall("push_data", "POST", <<"/core/dataset/data/pushData">>,
                 PushPayload, DefaultOptions, r, PushResult(r))

search_test(R) ==
    /\ pc = "idle"
    /\ \E r \in R :
        JsonCall("search_test", "POST", <<"/core/dataset/searchTest">>,
                 SearchPayload, DefaultOptions, r, SearchResult(r))

-----------------------------------------------------------------------------
(* create_file_collection, step by step *)

\* the call: is_url is computed, temp_file_path = None, the try block is entered
FileBegin(P, O) ==
    /\ pc = "idle"
    /\ \E p \in P, o \in O :
        \E e \in (IF IsUrl(p) THEN {FALSE} ELSE BOOLEAN) :
            /\ file_path' = p
            /\ path_exists' = e
            /\ opts' = o
    /\ op' = "create_file_collection"
    /\ temp_file_path' = 0
    /\ pc' = "validate"
    /\ UNCHANGED <<base_url, headers, uploaded, disk, tmp_file, actual_file_path, file_ext,
                   payload, exc, cause, retval, netlog, resp, cleanup, outcome>>

\* the head of either branch: the extension check of a URL; the existence
\* check, then the extension check, of a local path
FileValidate ==
    /\ pc = "validate"
    /\ file_ext' = IF ValidationError(file_path, path_exists).kind = "FileNotFoundError"
                   THEN file_ext
                   ELSE ExtensionOf(FilenameOf(file_path))
    /\ exc' = ValidationError(file_path, path_exists)
    /\ cause' = ValidationError(file_path, path_exists)
    /\ actual_file_path' =
           IF ValidationError(file_path, path_exists) = NoExc /\ ~IsUrl(file_path)
           THEN "local" ELSE actual_file_path
    /\ pc' = IF ValidationError(file_path, path_exists) # NoExc THEN "except"
             ELSE IF IsUrl(file_path) THEN "download" ELSE "metadata"
    /\ UNCHANGED <<base_url, headers, uploaded, disk, op, file_path, path_exists, opts,
                   tmp_file, temp_file_path, payload, retval, netlog, resp,
                   cleanup, outcome>>

\* what requests.get / raise_for_status raise, NoExc when the body arrived
DownloadError(d) ==
    CASE d = "net_error" -> Raise("ConnectionError", <<"download failed">>)
      [] d = "http_error" -> Raise("HTTPError", <<"404 Client Error">>)
      [] OTHER -> NoExc

\* response = requests.get(file_path, timeout=30); response.raise_for_status()
FileDownload ==
    /\ pc = "download"
    /\ netlog' = Append(netlog, Request("download", "GET", file_path, <<>>))
    /\ \E d \in {"ok", "net_error", "http_error"} :
        /\ exc' = DownloadError(d)
        /\ cause' = DownloadError(d)
        /\ pc' = IF d = "ok" THEN "mktemp" ELSE "except"
    /\ UNCHANGED <<base_url, headers, uploaded, disk, op, file_path, path_exists, opts,
                   tmp_file, temp_file_path, actual_file_path, file_ext, payload,
                   retval, resp, cleanup, outcome>>

\* tempfile.NamedTemporaryFile(delete=False, suffix=...): the file exists from
\* here on, or the call raised and there is none
FileMkTemp ==
    /\ pc = "mktemp"
    /\ \E ok \in {b \in BOOLEAN : b => Cardinality(disk) < DiskCapacity} :
        /\ tmp_file' = IF ok THEN FreshName(disk) ELSE tmp_file
        /\ disk' = IF ok THEN disk \cup {FreshName(disk)} ELSE disk
        /\ exc' = IF ok THEN NoExc ELSE Raise("OSError", <<"cannot create temporary file">>)
        /\ cause' = IF ok THEN NoExc ELSE Raise("OSError", <<"cannot create temporary file">>)
        /\ pc' = IF ok THEN "write" ELSE "except"
    /\ UNCHANGED <<base_url, headers, uploaded, op, file_path, path_exists, opts,
                   temp_file_path, actual_file_path, file_ext, payload, retval,
                   netlog, resp, cleanup, outcome>>

\* tmp_file.write(response.content); temp_file_path = tmp_file.name; the with
\* block closes the file; actual_file_path = temp_file_path
FileWrite ==
    /\ pc = "write"
    /\ \E ok \in BOOLEAN :
        /\ temp_file_path' = IF ok THEN tmp_file ELSE temp_file_path
        /\ actual_file_path' = IF ok THEN "temp" ELSE actual_file_path
        /\ exc' = IF ok THEN NoExc ELSE Raise("OSError", <<"No space left on device">>)
        /\ cause' = IF ok THEN NoExc ELSE Raise("OSError", <<"No space left on device">>)
        /\ pc' = IF ok THEN "metadata" ELSE "except"
    /\ UNCHANGED <<base_url, headers, uploaded, disk, op, file_path, path_exists, opts,
                   tmp_file, file_ext, payload, retval, netlog, resp, cleanup,
                   outcome>>

\* form_metadata is built
FileBuildMetadata ==
    /\ pc = "metadata"
    /\ payload' = FileMetadata(opts)
    /\ pc' = "open"
    /\ UNCHANGED <<base_url, headers, uploaded, disk, op, fileLocals, opts, cause, netlog,
                   resp, outcome>>

\* open(actual_file_path, 'rb')
FileOpen ==
    /\ pc = "open"
    /\ \E ok \in BOOLEAN :
        /\ exc' = IF ok THEN NoExc ELSE Raise("PermissionError", <<"Permission denied">>)
        /\ cause' = IF ok THEN NoExc ELSE Raise("PermissionError", <<"Permission denied">>)
        /\ pc' = IF ok THEN "upload" ELSE "except"
    /\ UNCHANGED <<base_url, headers, uploaded, disk, op, file_path, path_exists, opts,
                   tmp_file, temp_file_path, actual_file_path, file_ext, payload,
                   retval, netlog, resp, cleanup, outcome>>

\* requests.post with the copy of the headers, raise_for_status, json(), and
\* the return statement (which leaves through the finally block)
FileUpload(R) ==
    /\ pc = "upload"
    /\ netlog' = Append(netlog,
                        Request("multipart", "POST",
                                base_url \o <<"/core/dataset/collection/create/localFile">>,
                                HeadersCopy(headers)))
    /\ \E r \in R :
        /\ resp' = r
        /\ exc' = IF UploadResult(r).status = "raised"
                  THEN Raise(UploadResult(r).kind, UploadResult(r).msg) ELSE NoExc
        /\ cause' = IF UploadResult(r).status = "raised"
                    THEN Raise(UploadResult(r).kind, UploadResult(r).msg) ELSE NoExc
        /\ retval' = UploadResult(r).value
        /\ pc' = IF UploadResult(r).status = "raised" THEN "except" ELSE "finally"
    /\ headers' = HeadersAfterUpload(headers)
    /\ uploaded' = TRUE
    /\ UNCHANGED <<base_url, disk, op, file_path, path_exists, opts,
                   tmp_file, temp_file_path, actual_file_path, file_ext, payload,
                   cleanup, outcome>>

\* except Exception as e: raise Exception(f"File Upload Failed: {str(e)}")
FileExcept ==
    /\ pc = "except"
    /\ exc' = UploadFailed(exc)
    /\ pc' = "finally"
    /\ UNCHANGED <<base_url, headers, uploaded, disk, op, file_path, path_exists, opts,
                   tmp_file, temp_file_path, actual_file_path, file_ext, payload,
                   cause, retval, netlog, resp, cleanup, outcome>>

\* the file the finally block tries to delete, 0 when it tries nothing:
\* temp_file_path and os.path.exists(temp_file_path)
CleanupTarget(path, d) == IF path # 0 /\ path \in d THEN path ELSE 0

\* finally: os.unlink(temp_file_path), a failure of which is swallowed
FileFinally ==
    /\ pc = "finally"
    /\ \E ok \in (IF CleanupTarget(temp_file_path, disk) # 0 THEN BOOLEAN ELSE {TRUE}) :
        /\ disk' = IF ok THEN disk \ {CleanupTarget(temp_file_path, disk)} ELSE disk
        /\ cleanup' = IF CleanupTarget(temp_file_path, disk) = 0 THEN "nothing"
                      ELSE IF ok THEN "unlinked" ELSE "unlink_failed"
    /\ pc' = "exit"
    /\ UNCHANGED <<base_url, headers, uploaded, op, file_path, path_exists, opts, tmp_file,
                   temp_file_path, actual_file_path, file_ext, payload, exc, cause,
                   retval, netlog, resp, outcome>>

\* the call leaves: the exception in flight reaches the caller, or the value
\* of the return statement does
FileExit ==
    /\ pc = "exit"
    /\ outcome' = IF exc # NoExc THEN Raised(exc) ELSE Returned(retval)
    /\ pc' = "done"
    /\ UNCHANGED <<base_url, headers, uploaded, disk, op, fileLocals, opts, payload, cause,
                   netlog, resp>>

\* the caller has the outcome; the client is ready for the next call
Return ==
    /\ pc = "done"
    /\ pc' = "idle"
    /\ op' = "none"
    /\ file_path' = <<>>
    /\ path_exists' = FALSE
    /\ opts' = DefaultOptions
    /\ tmp_file' = 0
    /\ temp_file_path' = 0
    /\ actual_file_path' = "unset"
    /\ file_ext' = <<>>
    /\ payload' = NoPayload
    /\ exc' = NoExc
    /\ cause' = NoExc
    /\ retval' = Nothing
    /\ netlog' = <<>>
    /\ resp' = NoResponse
    /\ cleanup' = "none"
    /\ outcome' = NoOutcome
    /\ UNCHANGED <<base_url, headers, uploaded, disk>>

-----------------------------------------------------------------------------
(* Specifications *)

\* the client with file paths P, options O and responses R drawn
NextWith(P, O, R) ==
    \/ create_dataset(R)
    \/ get_dataset_detail(R)
    \/ delete_dataset(R)
    \/ create_empty_collection(R)
    \/ create_text_collection(O, R)
    \/ create_link_collection(O, R)
    \/ push_data(R)
    \/ search_test(R)
    \/ FileBegin(P, O)
    \/ FileValidate
    \/ FileDownload
    \/ FileMkTemp
    \/ FileWrite
    \/ FileBuildMetadata
    \/ FileOpen
    \/ FileUpload(R)
    \/ FileExcept
    \/ FileFinally
    \/ FileExit
    \/ Return

\* every file path and every response, a few option sets
Next == NextWith(FilePaths, SomeOptions, Responses)

Spec == Init /\ [][Next]_vars

\* every option set, a local file and a URL, a few responses
PayloadPaths ==
    { <<".", "/", "example", ".", "pdf">>,
      <<"https://", "example.com", "/", "document", ".", "pdf">> }

PayloadResponses ==
    { Failure("http_error"),
      Body(TRUE, 200, FALSE, "", [k |-> "str", id |-> "c1"]) }

PayloadNext == NextWith(PayloadPaths, AllOptions, PayloadResponses)

PayloadSpec == Init /\ [][PayloadNext]_vars

-----------------------------------------------------------------------------
(* Vocabulary of the properties *)

FileCall == op = "create_file_collection"

JsonOps ==
    { "create_dataset", "get_dataset_detail", "delete_dataset",
      "create_empty_collection", "create_text_collection",
      "create_link_collection", "push_data", "search_test" }

CollectionOps ==
    { "create_text_collection", "create_link_collection", "create_file_collection" }

\* the extension of the call's file_path is outside the allow-set
BadExtension == ExtensionOf(FilenameOf(file_path)) \notin ALLOWED_EXTENSIONS

\* the message names the unsupported-format error, the attempted extension
\* and every allowed extension
TellsUnsupported(msg) ==
    /\ Contains(msg, <<"unsupported file format: ">> \o ExtensionOf(FilenameOf(file_path)))
    /\ \A a \in ALLOWED_EXTENSIONS : Contains(msg, a)

\* the call made a payload
PayloadBuilt == op \in CollectionOps /\ payload # NoPayload

-----------------------------------------------------------------------------
(* C1 *)

\* C1 (as claimed): once a create_file_collection call with a URL source has
\* returned or raised, no temporary file that call created exists on disk,
\* whichever of temporary-file creation, writing, opening, upload and
\* response parsing failed.  (Deletion itself failing is not among the
\* failures the claim lists, so such runs are left out.)
C1_NoTempFileAfterCall ==
    (pc = "done" /\ FileCall /\ IsUrl(file_path) /\ cleanup # "unlink_failed")
        => (tmp_file = 0 \/ tmp_file \notin disk)

-----------------------------------------------------------------------------
(* C2 *)

\* C2: create_file_collection issues no network request before validation
\* has passed: none while the checks are still to run, and none at all, up
\* to and including the failure the caller gets, when the extension is
\* outside the allow-set or the source is a local path that does not exist.
C2_NoRequestBeforeValidation ==
    FileCall =>
        /\ (pc = "validate" => netlog = <<>>)
        /\ ((BadExtension \/ (~IsUrl(file_path) /\ ~path_exists)) =>
               /\ netlog = <<>>
               /\ (pc = "done" => outcome.status = "raised"))

\* a URL with an extension outside the allow-set has failed, without a request
C2_Witness ==
    /\ pc = "done" /\ FileCall /\ IsUrl(file_path) /\ BadExtension
    /\ outcome.status = "raised" /\ netlog = <<>>

-----------------------------------------------------------------------------
(* C3 *)

\* C3 (as claimed): the caller of create_file_collection gets a ValueError
\* for an extension outside the allow-set and a FileNotFoundError for a
\* local path that does not exist, both different in kind from the generic
\* upload-failed error of download and upload failures.
C3_ErrorKindsDistinguishable ==
    (pc = "done" /\ FileCall) =>
        /\ ((~IsUrl(file_path) /\ ~path_exists) => outcome.kind = "FileNotFoundError")
        /\ ((BadExtension /\ (IsUrl(file_path) \/ path_exists)) =>
               outcome.kind = "ValueError")
        /\ (Len(netlog) > 0 /\ outcome.status = "raised" =>
               outcome.kind \notin {"ValueError", "FileNotFoundError"})

-----------------------------------------------------------------------------
(* C4 *)

-----------------------------------------------------------------------------
(* C5 *)

\* C5 (as claimed): a local source whose extension is outside the allow-set
\* fails with the unsupported-format error, carrying the extension and the
\* allow-set, whether or not the path exists on disk.
C5_ExtensionCheckedBeforeExistence ==
    (pc = "done" /\ FileCall /\ ~IsUrl(file_path) /\ BadExtension) =>
        /\ outcome.status = "raised"
        /\ TellsUnsupported(outcome.msg)

\* C5 (amended): a local source whose extension is outside the allow-set
\* fails without a network request; the existence check comes first, so the
\* error carries the unsupported-format message, with the extension and the
\* allow-set, when the path exists, and the file-not-found message, with the
\* path, when it does not.
C5_ExistenceCheckedFirst ==
    (pc = "done" /\ FileCall /\ ~IsUrl(file_path) /\ BadExtension) =>
        /\ outcome.status = "raised"
        /\ netlog = <<>>
        /\ (path_exists => TellsUnsupported(outcome.msg))
        /\ (~path_exists =>
               /\ Contains(outcome.msg, <<"file does not exist: ">> \o file_path)
               /\ ~Contains(outcome.msg, <<"unsupported file format: ">>))

\* a local path that does not exist, with an extension outside the
\* allow-set, has failed as not found
C5_Witness ==
    /\ pc = "done" /\ FileCall /\ ~IsUrl(file_path) /\ BadExtension /\ ~path_exists
    /\ Contains(outcome.msg, <<"file does not exist: ">>)

-----------------------------------------------------------------------------
(* C6 *)

\* C6 (as claimed): an operation that goes through _request raises the
\* request-failed error, and returns nothing, for every integer code in the
\* body other than 200 and 201, zero and negative codes included.  (Stated
\* for the bodies that carry a data field, the ones an operation could
\* return something from.)
C6_NonSuccessCodeRaises ==
    (pc = "done" /\ op \in JsonOps /\ resp.stage = "body" /\ resp.data # Absent
        /\ resp.has_code /\ resp.code \notin {200, 201}) =>
        /\ outcome.status = "raised"
        /\ outcome.kind = "Exception"
        /\ StartsWith(outcome.msg, <<"Request Failed: ">>)

-----------------------------------------------------------------------------
(* C7 *)

\* C7 (as claimed): at every endpoint, the file upload included, a response
\* of HTTP status 200 with the body {"code": 500, "message": m} makes the
\* operation fail with an error whose message contains m.
C7_Code500FailsWithMessage ==
    (pc = "done" /\ resp.stage = "body" /\ resp.has_code /\ resp.code = 500
        /\ resp.has_message /\ resp.data = Absent) =>
        /\ outcome.status = "raised"
        /\ Contains(outcome.msg, <<resp.message>>)

-----------------------------------------------------------------------------
(* C8 *)

ChunkFieldNames == {"chunkSplitMode", "chunkSize", "indexSize", "chunkSplitter"}

\* C8 (as claimed): in the payload of the text, link and file collection
\* operations, chunk_setting_mode "auto" leaves out chunkSplitMode, chunkSize,
\* indexSize and chunkSplitter, and "custom" includes all four with the
\* passed values, the empty splitter included.
C8_CustomHasAllFour ==
    PayloadBuilt =>
        IF opts.chunk_setting_mode = "custom"
        THEN /\ ChunkFieldNames \subseteq DOMAIN payload
             /\ payload["chunkSplitMode"] = opts.chunk_split_mode
             /\ payload["chunkSize"] = opts.chunk_size
             /\ payload["indexSize"] = opts.index_size
             /\ payload["chunkSplitter"] = opts.chunk_splitter
        ELSE ChunkFieldNames \cap DOMAIN payload = {}

\* C8 (amended): "auto" leaves out all four fields; "custom" includes
\* chunkSplitMode, chunkSize and indexSize with the passed values, and
\* chunkSplitter, with the passed value, exactly when the passed splitter is
\* not empty.
C8_SplitterOnlyWhenNonEmpty ==
    PayloadBuilt =>
        IF opts.chunk_setting_mode = "custom"
        THEN /\ {"chunkSplitMode", "chunkSize", "indexSize"} \subseteq DOMAIN payload
             /\ payload["chunkSplitMode"] = opts.chunk_split_mode
             /\ payload["chunkSize"] = opts.chunk_size
             /\ payload["indexSize"] = opts.index_size
             /\ ("chunkSplitter" \in DOMAIN payload <=> opts.chunk_splitter # "")
             /\ ("chunkSplitter" \in DOMAIN payload =>
                    payload["chunkSplitter"] = opts.chunk_splitter)
        ELSE ChunkFieldNames \cap DOMAIN payload = {}

\* a custom-mode file upload with the default, empty splitter and sizes that
\* are not the defaults: the payload has three of the four fields
C8_Witness ==
    /\ FileCall /\ payload # NoPayload
    /\ opts.chunk_setting_mode = "custom" /\ opts.chunk_splitter = ""
    /\ opts.chunk_size = 1000 /\ payload["chunkSize"] = 1000
    /\ "chunkSplitter" \notin DOMAIN payload

-----------------------------------------------------------------------------
(* C9 *)

\* the flag arguments and the payload field of each
FlagNames == {"index_prefix_title", "auto_indexes", "image_index"}

FlagField(flag) ==
    CASE flag = "index_prefix_title" -> "indexPrefixTitle"
      [] flag = "auto_indexes" -> "autoIndexes"
      [] flag = "image_index" -> "imageIndex"

\* the default each signature gives the flag
SignatureDefault(operation, flag) ==
    CASE operation = "create_text_collection" -> "None"
      [] operation = "create_link_collection" -> "True"
      [] operation = "create_file_collection" ->
           IF flag = "auto_indexes" THEN "None" ELSE "True"

\* C9 (as claimed): indexPrefixTitle, autoIndexes and imageIndex are in the
\* payload only when the caller passed the argument; when the caller is
\* silent the field is absent.
C9_FlagsOnlyWhenPassed ==
    PayloadBuilt =>
        \A flag \in FlagNames :
            opts[flag] = "omitted" => FlagField(flag) \notin DOMAIN payload

\* C9 (amended): a flag is in the payload exactly when its value inside the
\* function, the passed one or else the default of the signature, is not
\* None, and the field carries that value.  The defaults are None for all
\* three in create_text_collection, True for all three in
\* create_link_collection, and True, None, True (indexPrefixTitle,
\* autoIndexes, imageIndex) in create_file_collection: a silent caller gets
\* the field left out only where the default is None.
C9_FlagsWhenNotNone ==
    PayloadBuilt =>
        \A flag \in FlagNames :
            LET value == Effective(opts[flag], SignatureDefault(op, flag))
            IN /\ (FlagField(flag) \in DOMAIN payload <=> value # "None")
               /\ (FlagField(flag) \in DOMAIN payload => payload[FlagField(flag)] = value)

\* a link call silent about index_prefix_title sends indexPrefixTitle: True
C9_Witness ==
    /\ op = "create_link_collection" /\ payload # NoPayload
    /\ opts.index_prefix_title = "omitted"
    /\ "indexPrefixTitle" \in DOMAIN payload
    /\ payload["indexPrefixTitle"] = "True"

-----------------------------------------------------------------------------
(* C10 *)

\* C10: in the payload of the text, link and file collection operations,
\* qaPrompt is present if and only if training_type is "qa" and qa_prompt is
\* not empty, and then it is the passed prompt.
C10_QaPromptIff ==
    PayloadBuilt =>
        /\ ("qaPrompt" \in DOMAIN payload <=>
               (opts.training_type = "qa" /\ opts.qa_prompt # ""))
        /\ ("qaPrompt" \in DOMAIN payload => payload["qaPrompt"] = opts.qa_prompt)

\* a qa call with a prompt has sent it
C10_Witness ==
    /\ op = "create_text_collection" /\ payload # NoPayload
    /\ opts.training_type = "qa" /\ opts.qa_prompt = "ask"
    /\ "qaPrompt" \in DOMAIN payload /\ payload["qaPrompt"] = "ask"

-----------------------------------------------------------------------------
(* C11 *)

\* C11: when the upload of create_file_collection got a body, the call
\* returns data.collectionId if data is a mapping that has collectionId,
\* returns data as it is for every other body that has a data field, and
\* returns nothing (it raises) for a body without a data field.
C11_CollectionIdPreferred ==
    (pc = "done" /\ FileCall /\ resp.stage = "body") =>
        CASE resp.data.k = "mapId" ->
               outcome = Returned([k |-> "str", id |-> resp.data.id])
          [] resp.data = Absent -> outcome.status = "raised"
          [] OTHER -> outcome = Returned(resp.data)

\* an upload answered with {"data": {"collectionId": "c2"}} has returned "c2"
C11_Witness ==
    /\ pc = "done" /\ FileCall /\ resp.stage = "body"
    /\ resp.data = [k |-> "mapId", id |-> "c2"]
    /\ outcome.status = "returned"
    /\ outcome.value = [k |-> "str", id |-> "c2"]

-----------------------------------------------------------------------------
(* C12 *)

\* the headers the constructor sets for some api_key
ConstructedHeaders(h) == \E key \in ApiKeys : h = InitHeaders(key)

\* C12: no operation, successful or failing, changes the client's base_url
\* or headers; the upload of create_file_collection is sent with the
\* Authorization header and no Content-Type, and every JSON request, also
\* one that follows an upload, is sent with Authorization and
\* Content-Type: application/json.
C12_ConfigurationReadOnly ==
    /\ [][base_url' = base_url /\ headers' = headers]_vars
    /\ [](\A i \in 1..Len(netlog) :
            /\ netlog[i].kind = "multipart" =>
                  /\ DOMAIN netlog[i].headers = {"Authorization"}
                  /\ netlog[i].headers["Authorization"] = headers["Authorization"]
            /\ netlog[i].kind = "json" =>
                  /\ ConstructedHeaders(netlog[i].headers)
                  /\ netlog[i].headers["Content-Type"] = <<"application/json">>)

\* a JSON operation that followed an upload has sent both headers
C12_Witness ==
    /\ pc = "done" /\ op \in JsonOps /\ uploaded
    /\ Len(netlog) = 1
    /\ DOMAIN netlog[1].headers = {"Authorization", "Content-Type"}
    /\ headers = netlog[1].headers

====
